---- MODULE Spec2Model ----
(***************************************************************************)
(* AliasForge: the shell-config export/import engine of the main process.  *)
(*                                                                         *)
(* A text is a sequence of tokens.  A token is one character, or one of    *)
(* the literal strings the code handles only as a whole (the two block     *)
(* markers, the pieces of the statement templates, the header lines).      *)
(* Substring search and slicing therefore work on token positions.         *)
(***************************************************************************)
EXTENDS Integers, Sequences, FiniteSets, TLC

VARIABLES
    platform,      \* process.platform
    currentShell,  \* the shell name the renderer passes to aliases:export / aliases:import
    uiAliases,     \* the alias collection the renderer passes to aliases:export
    configExists,  \* whether the file at getShellConfigPath(currentShell) exists
    configText,    \* its content
    backups,       \* backup files of the config path: timestamp |-> content
    now,           \* the clock, in milliseconds (new Date())
    calls,         \* the invocations of writeAliasesToShell, in order of arrival
    faults,        \* file operations that have failed on a file that is there
    stdout,        \* the output of the alias-listing process (live-shell import)
    importPc,      \* position of the live-shell import: "idle", "run" (the handler
                   \* is running), "done" (it has replied), "merged" (the
                   \* renderer has dealt with the reply)
    importReply,   \* what the aliases:import handler returned
    selectedAliases, \* state.selectedAliases: the ids ticked in the table
    filterTag,     \* state.filterTag: "all" or a tag
    searchQuery,   \* state.searchQuery
    saves,         \* the invocations of aliases:save in flight
    stored,        \* the aliases of aliases.json
    nextId,        \* the ids generateId has handed out
    importDoc,     \* the JSON document the user picked (file-mode import)
    fileImport,    \* position and outcome of the file-mode import
    pendingImportValidation,  \* state.pendingImportValidation
    currentPrefixValue,       \* the text of #current-prefix-value
    restoreReply,             \* what a request to restore the config file got
    uiSteps,       \* the user's actions so far
    shellInfo      \* what shell:detect returned, once it has been asked

rendererVars == <<selectedAliases, filterTag, searchQuery, saves, stored, nextId,
                  importDoc, fileImport, pendingImportValidation,
                  currentPrefixValue, restoreReply, uiSteps, shellInfo>>

vars == <<platform, currentShell, uiAliases, configExists, configText, backups,
          now, calls, faults, stdout, importPc, importReply, rendererVars>>

exportVars == <<configExists, configText, backups, now, calls, faults>>
importVars == <<stdout, importPc, importReply>>
envVars    == <<platform, currentShell, uiAliases, rendererVars>>
hostVars   == <<platform, currentShell, restoreReply, shellInfo>>

----------------------------------------------------------------------------
(* Bounds of the model *)

MaxLen == 3          \* longest initial config text, in tokens
MaxExports == 2      \* exports in one behaviour
MaxTime == 1         \* last clock value
MaxFaults == 1       \* failing file operations in one behaviour
MaxAliases == 2      \* longest alias collection
MaxBackupExports == 6 \* exports in one behaviour of the retention scenario
MaxBackupTime == 5   \* last clock value of the retention scenario
RenderExports == 1   \* exports in one behaviour of the rendering scenario
RenderFaults == 0    \* failing file operations in the rendering scenario
MaxUiSteps == 2      \* actions of the user in one behaviour of the renderer
UiTime == 0          \* last clock value of the renderer scenarios
UiFaults == 0        \* failing file operations in the renderer scenarios
MaxBulkSteps == 3    \* actions of the user in one behaviour of the bulk actions
MaxEntries == 2      \* most entries of an imported document
MaxDeviations == 2   \* fields in which an entry differs from the usual one
FileImports == 1     \* imports from a file in one behaviour
MaxLines == 3        \* most lines the shell prints (import)
MaxRaw == 4          \* longest raw output of the shell (sanitisation)
MaxCommand == 3      \* longest command of a rendered record (import)

----------------------------------------------------------------------------
(* Text helpers: JavaScript's String methods on token sequences *)

NL == "\n"

WhiteSpace == {" ", "\n", "\t", "\r"}

RECURSIVE trimEnd(_)
trimEnd(s) ==
    IF s = <<>> THEN <<>>
    ELSE IF s[Len(s)] \in WhiteSpace THEN trimEnd(SubSeq(s, 1, Len(s) - 1))
    ELSE s

RECURSIVE trimStart(_)
trimStart(s) ==
    IF s = <<>> THEN <<>>
    ELSE IF Head(s) \in WhiteSpace THEN trimStart(Tail(s))
    ELSE s

trim(s) == trimEnd(trimStart(s))

\* String.prototype.indexOf for a one-token needle: 0-based, -1 when absent
indexOf(s, tok) ==
    IF \E i \in 1..Len(s) : s[i] = tok
    THEN (CHOOSE i \in 1..Len(s) : s[i] = tok /\ \A j \in 1..(i - 1) : s[j] # tok) - 1
    ELSE -1

\* String.prototype.substring(a, b) and substring(a), 0-based, for 0 <= a <= b
substring(s, a, b) == SubSeq(s, a + 1, b)
substringFrom(s, a) == SubSeq(s, a + 1, Len(s))

RECURSIVE Flatten(_)
Flatten(ss) == IF ss = <<>> THEN <<>> ELSE Head(ss) \o Flatten(Tail(ss))

Count(s, tok) == Cardinality({i \in 1..Len(s) : s[i] = tok})

SeqsUpTo(A, n) == UNION {[1..k -> A] : k \in 0..n}

----------------------------------------------------------------------------
(* Shell targets *)

Platforms == {"darwin", "linux", "win32"}
ShellIds == {"zsh", "bash", "fish", "powershell", "cmd"}

\* mutant of getShellConfigPath: the case of fish is lost
getShellConfigPath_NoFish(shellName, plat) ==
    IF plat = "win32"
    THEN IF shellName = "powershell"
         THEN "~/Documents/PowerShell/Microsoft.PowerShell_profile.ps1"
         ELSE "~/aliases.cmd"
    ELSE CASE shellName = "zsh" -> "~/.zshrc"
           [] shellName = "bash" -> "~/.bashrc"
           [] OTHER -> "~/.bashrc"

\* getShellConfigPath: the path is written relative to the home directory
getShellConfigPath(shellName, plat) ==
    IF plat = "win32"
    THEN IF shellName = "powershell"
         THEN "~/Documents/PowerShell/Microsoft.PowerShell_profile.ps1"
         ELSE "~/aliases.cmd"
    ELSE CASE shellName = "zsh" -> "~/.zshrc"
           [] shellName = "bash" -> "~/.bashrc"
           [] shellName = "fish" -> "~/.config/fish/config.fish"
           [] OTHER -> "~/.bashrc"

\* getDefaultSettings().backupCount
backupCount == 5

----------------------------------------------------------------------------
(* Alias names *)

Letters == {"a","b","c","d","e","f","g","h","i","j","k","l","m","n","o","p","q",
            "r","s","t","u","v","w","x","y","z",
            "A","B","C","D","E","F","G","H","I","J","K","L","M","N","O","P","Q",
            "R","S","T","U","V","W","X","Y","Z"}
Digits == {"0","1","2","3","4","5","6","7","8","9"}

\* /^[A-Za-z_][A-Za-z0-9_-]*$/.test(name)
validName(name) ==
    /\ Len(name) >= 1
    /\ name[1] \in Letters \cup {"_"}
    /\ \A i \in 2..Len(name) : name[i] \in Letters \cup Digits \cup {"_", "-"}

----------------------------------------------------------------------------
(* Exporter: the text writeAliasesToShell builds *)

blockStart == "# >>> AliasForge managed aliases >>>"
blockEnd == "# <<< AliasForge managed aliases <<<"
managedNote == "# Managed by AliasForge - do not edit manually"
lastUpdated == "# Last updated: "

\* blockEnd.length, in tokens
blockEndLength == 1

\* new Date().toISOString()
toISOString(t) == ToString(t)

\* command.replace(/'/g, "'\\''")
RECURSIVE escapeQuotes(_)
escapeQuotes(command) ==
    IF command = <<>> THEN <<>>
    ELSE (IF Head(command) = "'" THEN <<"'", "\\", "'", "'">> ELSE <<Head(command)>>)
         \o escapeQuotes(Tail(command))

descriptionLine(alias) ==
    IF alias.description # <<>> THEN <<"# ">> \o alias.description \o <<NL>> ELSE <<>>

\* `function ${alias.name} { ${alias.command} }\n`
powershellStatement(alias) ==
    <<"function ">> \o alias.name \o <<" { ">> \o alias.command \o <<" }", NL>>

\* `alias ${alias.name}='${alias.command.replace(/'/g, "'\\''")}'\n`
unixStatement(alias) ==
    <<"alias ">> \o alias.name \o <<"=", "'">> \o escapeQuotes(alias.command) \o <<"'", NL>>

usesPowershellFormat(shellName, plat) == plat = "win32" /\ shellName = "powershell"

statementLine(alias, shellName, plat) ==
    IF usesPowershellFormat(shellName, plat)
    THEN powershellStatement(alias)
    ELSE unixStatement(alias)

\* mutant of enabledAliases: the filter on the enabled flag is lost
enabledAliases_Unfiltered(aliases) == aliases

\* aliases.filter(a => a.enabled)
enabledAliases(aliases) == SelectSeq(aliases, LAMBDA a : a.enabled)

\* the two for-loops over enabledAliases
aliasLines(aliases, shellName, plat) ==
    LET en == enabledAliases(aliases)
    IN Flatten([i \in 1..Len(en) |->
                  descriptionLine(en[i]) \o statementLine(en[i], shellName, plat)])

aliasBlock(aliases, shellName, plat, t) ==
    <<NL, blockStart, NL, managedNote, NL, lastUpdated, toISOString(t), NL, NL>>
    \o aliasLines(aliases, shellName, plat)
    \o <<NL, blockEnd, NL>>

\* "Remove old AliasForge block"
removeOldBlock(existingContent) ==
    LET startIndex == indexOf(existingContent, blockStart)
        endIndex == indexOf(existingContent, blockEnd)
    IN IF startIndex # -1 /\ endIndex # -1
       THEN substring(existingContent, 0, startIndex)
            \o substringFrom(existingContent, endIndex + blockEndLength)
       ELSE existingContent

newContent(existingContent, aliases, shellName, plat, t) ==
    trimEnd(removeOldBlock(existingContent)) \o aliasBlock(aliases, shellName, plat, t)

----------------------------------------------------------------------------
(* Exporter: writeAliasesToShell behind ipcMain.handle("aliases:export").   *)
(* The handler awaits copyFile, readFile and writeFile: one step each.      *)

NoBackups == [t \in {} |-> <<>>]

putBackup(bs, t, text) ==
    [u \in DOMAIN bs \cup {t} |-> IF u = t THEN text ELSE bs[u]]

newCall(aliases, shellName, t) ==
    [aliases |-> aliases, shellName |-> shellName,
     pc |-> "copy",
     path |-> getShellConfigPath(shellName, platform),
     timestamp |-> t,              \* names backupPath
     existedAtStart |-> configExists,
     textAtStart |-> configText,
     copied |-> FALSE,             \* copyFile resolved
     readOk |-> FALSE,             \* readFile resolved
     existingContent |-> <<>>,     \* what the handler read
     written |-> <<>>,             \* newContent
     existedAtWrite |-> FALSE,     \* the file, immediately before writeFile
     textAtWrite |-> <<>>,
     result |-> "pending"]         \* "success": {success: true, path, backupPath}
                                   \* "error":   {success: false, error}

allDone == \A i \in 1..Len(calls) : calls[i].pc = "done"

\* new Date(): the clock has not gone back since it was last read
ReadClock(t, lastTime) ==
    /\ t \in now..lastTime
    /\ now' = t

\* a file operation fails although the file is there (EACCES, ENOSPC, EIO ...)
Fails(ok, maxFaults) ==
    /\ ~ok
    /\ faults < maxFaults
    /\ faults' = faults + 1

\* the renderer invokes aliases:export; the handler runs up to its first await
Invoke(limit, lastTime) ==
    /\ Len(calls) < limit
    /\ allDone
    /\ \E t \in 0..lastTime :
          /\ ReadClock(t, lastTime)
          /\ calls' = Append(calls, newCall(uiAliases, currentShell, t))
    /\ UNCHANGED <<configExists, configText, backups, faults, envVars, importVars>>

\* await fs.copyFile(configPath, backupPath), any error swallowed
CopyStep(i, ok, maxFaults) ==
    /\ calls[i].pc = "copy"
    /\ \/ /\ configExists /\ ok
          /\ backups' = putBackup(backups, calls[i].timestamp, configText)
          /\ calls' = [calls EXCEPT ![i].pc = "read", ![i].copied = TRUE]
          /\ UNCHANGED faults
       \/ /\ ~configExists /\ ok       \* ENOENT
          /\ calls' = [calls EXCEPT ![i].pc = "read"]
          /\ UNCHANGED <<backups, faults>>
       \/ /\ configExists /\ Fails(ok, maxFaults)
          /\ calls' = [calls EXCEPT ![i].pc = "read"]
          /\ UNCHANGED backups
    /\ UNCHANGED <<configExists, configText, now, envVars, importVars>>

\* await fs.readFile(configPath), any error swallowed; then the block is built
\* and fs.writeFile is called
ReadStep(i, ok, lastTime, maxFaults) ==
    /\ calls[i].pc = "read"
    /\ \/ configExists /\ ok /\ UNCHANGED faults
       \/ ~configExists /\ ok /\ UNCHANGED faults      \* ENOENT
       \/ configExists /\ Fails(ok, maxFaults)
    /\ \E t \in 0..lastTime :
          /\ ReadClock(t, lastTime)
          /\ LET existingContent == IF configExists /\ ok THEN configText ELSE <<>>
             IN calls' = [calls EXCEPT
                    ![i].pc = "write",
                    ![i].readOk = configExists /\ ok,
                    ![i].existingContent = existingContent,
                    ![i].written = newContent(existingContent, calls[i].aliases,
                                              calls[i].shellName, platform, t)]
    /\ UNCHANGED <<configExists, configText, backups, envVars, importVars>>

\* await fs.writeFile(configPath, newContent): the file is opened with
\* truncation and written piece by piece.  An error is rethrown and the
\* aliases:export handler turns it into {success: false, error}
WriteStep(i, ok, maxFaults) ==
    /\ calls[i].pc = "write"
    /\ \/ /\ ok
          /\ configExists' = TRUE
          /\ configText' = calls[i].written
          /\ calls' = [calls EXCEPT ![i].pc = "done", ![i].result = "success",
                          ![i].existedAtWrite = configExists,
                          ![i].textAtWrite = configText]
          /\ UNCHANGED faults
       \/ /\ Fails(ok, maxFaults)
          /\ calls' = [calls EXCEPT ![i].pc = "done", ![i].result = "error",
                          ![i].existedAtWrite = configExists,
                          ![i].textAtWrite = configText]
          /\ \/ UNCHANGED <<configExists, configText>>     \* the open failed
             \/ \E k \in 0..(Len(calls[i].written) - 1) :   \* a write failed after
                   /\ configExists' = TRUE                  \* the file was truncated
                   /\ configText' = SubSeq(calls[i].written, 1, k)
    /\ UNCHANGED <<backups, now, envVars, importVars>>

ExportNext(limit, lastTime, maxFaults) ==
    \/ Invoke(limit, lastTime)
    \/ \E i \in 1..Len(calls), ok \in BOOLEAN : CopyStep(i, ok, maxFaults)
    \/ \E i \in 1..Len(calls), ok \in BOOLEAN : ReadStep(i, ok, lastTime, maxFaults)
    \/ \E i \in 1..Len(calls), ok \in BOOLEAN : WriteStep(i, ok, maxFaults)

----------------------------------------------------------------------------
(* Importer: the text passes of parseAliasesFromShell.  Control characters  *)
(* are tokens named after the character: "ESC" is \x1b, "BEL" is \x07.      *)

ESC == "ESC"
BEL == "BEL"

\* the characters of [\x00-\x08\x0B\x0C\x0E-\x1F\x7F] the model's texts use
ControlChars == {"NUL", BEL, "BS", "VT", "FF", ESC, "DEL"}

\* length of the longest prefix of s made of characters of set A
RECURSIVE spanOf(_, _)
spanOf(s, A) ==
    IF s = <<>> \/ Head(s) \notin A THEN 0 ELSE 1 + spanOf(Tail(s), A)

\* length of the match of /\x1b\][^\x07\x1b]*(?:\x07|\x1b\\)/ at the head of s, 0 if none
oscMatch(s) ==
    IF Len(s) >= 2 /\ s[1] = ESC /\ s[2] = "]"
    THEN LET rest == SubSeq(s, 3, Len(s))
             body == CHOOSE n \in 0..Len(rest) :
                        /\ \A k \in 1..n : rest[k] \notin {BEL, ESC}
                        /\ (n < Len(rest) => rest[n + 1] \in {BEL, ESC})
         IN IF body < Len(rest) /\ rest[body + 1] = BEL THEN 2 + body + 1
            ELSE IF body + 1 < Len(rest) /\ rest[body + 1] = ESC /\ rest[body + 2] = "\\"
                 THEN 2 + body + 2
            ELSE 0
    ELSE 0

\* length of the match of /\x1b\[[0-9;]*[A-Za-z]/ at the head of s, 0 if none
csiMatch(s) ==
    IF Len(s) >= 2 /\ s[1] = ESC /\ s[2] = "["
    THEN LET rest == SubSeq(s, 3, Len(s))
             params == spanOf(rest, Digits \cup {";"})
         IN IF params < Len(rest) /\ rest[params + 1] \in Letters
            THEN 2 + params + 1
            ELSE 0
    ELSE 0

\* cleaned.replace(/\x1b\][^\x07\x1b]*(?:\x07|\x1b\\)/g, "")
RECURSIVE removeOsc(_)
removeOsc(s) ==
    IF s = <<>> THEN <<>>
    ELSE IF oscMatch(s) > 0 THEN removeOsc(SubSeq(s, oscMatch(s) + 1, Len(s)))
    ELSE <<Head(s)>> \o removeOsc(Tail(s))

\* cleaned.replace(/\x1b\[[0-9;]*[A-Za-z]/g, "")
RECURSIVE removeCsi(_)
removeCsi(s) ==
    IF s = <<>> THEN <<>>
    ELSE IF csiMatch(s) > 0 THEN removeCsi(SubSeq(s, csiMatch(s) + 1, Len(s)))
    ELSE <<Head(s)>> \o removeCsi(Tail(s))

\* cleaned.replace(/[\x00-\x08\x0B\x0C\x0E-\x1F\x7F]/g, "")
removeControl(s) == SelectSeq(s, LAMBDA c : c \notin ControlChars)

cleanOutput(out) == removeControl(removeCsi(removeOsc(out)))

\* String.prototype.split('\n')
RECURSIVE splitLines(_)
splitLines(s) ==
    LET nl == indexOf(s, NL)
    IN IF nl = -1 THEN <<s>>
       ELSE <<substring(s, 0, nl)>> \o splitLines(substringFrom(s, nl + 1))

\* cleaned.split('\n').map(l => l.trim()).filter(line => line.length > 0)
nonEmptyLines(cleaned) ==
    LET ls == splitLines(cleaned)
    IN SelectSeq([i \in 1..Len(ls) |-> trim(ls[i])], LAMBDA l : Len(l) > 0)

\* if (line.startsWith("alias ")) line = line.slice(6).trim()
stripAliasPrefix(line) ==
    IF line # <<>> /\ Head(line) = "alias " THEN trim(Tail(line)) ELSE line

\* String.prototype.split(/\s{2,}/)
RECURSIVE splitColumns(_)
splitColumns(s) ==
    IF \E i \in 1..(Len(s) - 1) : s[i] \in WhiteSpace /\ s[i + 1] \in WhiteSpace
    THEN LET i == CHOOSE i \in 1..(Len(s) - 1) :
                     /\ s[i] \in WhiteSpace /\ s[i + 1] \in WhiteSpace
                     /\ \A j \in 1..(i - 1) : ~(s[j] \in WhiteSpace /\ s[j + 1] \in WhiteSpace)
             run == spanOf(SubSeq(s, i, Len(s)), WhiteSpace)
         IN <<SubSeq(s, 1, i - 1)>> \o splitColumns(SubSeq(s, i + run, Len(s)))
    ELSE <<s>>

\* the characters `.` does not match
LineTerminators == {"\n", "\r"}

\* line.match(/^([^=]+)=(.+)$/): <<name, rest>>, or <<>> when there is no match
matchAssignment(line) ==
    LET eq == indexOf(line, "=")
        rest == substringFrom(line, eq + 1)
    IN IF eq >= 1 /\ Len(rest) >= 1 /\ \A k \in 1..Len(rest) : rest[k] \notin LineTerminators
       THEN <<substring(line, 0, eq), rest>>
       ELSE <<>>

\* "Remove surrounding quotes if present"
stripQuotes(command) ==
    IF command # <<>>
       /\ \/ Head(command) = "'" /\ command[Len(command)] = "'"
          \/ Head(command) = "\"" /\ command[Len(command)] = "\""
    THEN SubSeq(command, 2, Len(command) - 1)      \* command.slice(1, -1)
    ELSE command

importedAlias(name, command) ==
    [name |-> name, command |-> command, description |-> <<>>,
     tags |-> <<"imported">>, enabled |-> TRUE, source |-> "system"]

\* the body of the for-loop: the records one line adds (none or one)
parseLine(line0, shellName, plat) ==
    LET line == stripAliasPrefix(line0)
    IN IF plat = "win32" /\ shellName = "powershell"
       THEN LET parts == splitColumns(line)
            IN IF Len(parts) >= 2
               THEN <<importedAlias(trim(parts[1]), trim(parts[2]))>>
               ELSE <<>>
       ELSE IF plat = "win32"
       THEN LET m == matchAssignment(line)
            IN IF m # <<>> THEN <<importedAlias(trim(m[1]), trim(m[2]))>> ELSE <<>>
       ELSE LET m == matchAssignment(line)
            IN IF m # <<>>
               THEN LET name == trim(m[1])
                        command == stripQuotes(trim(m[2]))
                    IN IF validName(name) THEN <<importedAlias(name, command)>> ELSE <<>>
               ELSE <<>>

\* parseAliasesFromShell, after execAsync resolved with `out`
parseAliases(out, shellName, plat) ==
    LET lines == nonEmptyLines(cleanOutput(out))
    IN Flatten([i \in 1..Len(lines) |-> parseLine(lines[i], shellName, plat)])

----------------------------------------------------------------------------
(* Importer: ipcMain.handle("aliases:import") around parseAliasesFromShell *)

\* execOk: whether execAsync resolved (not part of the reply)
NoReply == [success |-> FALSE, aliases |-> <<>>, error |-> FALSE, execOk |-> FALSE]

\* the renderer invokes aliases:import; the handler awaits execAsync(command)
ImportInvoke ==
    /\ importPc = "idle"
    /\ importPc' = "run"
    /\ UNCHANGED <<stdout, importReply, exportVars, envVars>>

\* execAsync resolves with stdout, or rejects (spawn error, non-zero exit):
\* parseAliasesFromShell catches the rejection and returns []
ImportFinish(ok) ==
    /\ importPc = "run"
    /\ importPc' = "done"
    /\ importReply' =
          [success |-> TRUE,
           aliases |-> IF ok THEN parseAliases(stdout, currentShell, platform) ELSE <<>>,
           error |-> FALSE,
           execOk |-> ok]
    /\ UNCHANGED <<stdout, exportVars, envVars>>

ImportNext ==
    \/ ImportInvoke
    \/ \E ok \in BOOLEAN : ImportFinish(ok)

----------------------------------------------------------------------------
(* Alias records *)

Alias(name, command, description, enabled) ==
    [name |-> name, command |-> command, description |-> description, enabled |-> enabled]

gs == Alias(<<"g", "s">>, <<"l", "s">>, <<>>, TRUE)
gsOff == Alias(<<"g", "s">>, <<"l", "s">>, <<>>, FALSE)
dash == Alias(<<"-">>, <<"c", "d">>, <<>>, TRUE)
quoted == Alias(<<"q">>, <<"i", "'", "s">>, <<"d">>, TRUE)
off == Alias(<<"z">>, <<"q">>, <<"d">>, FALSE)

AliasPool == {gs, gsOff, dash, quoted, off}

----------------------------------------------------------------------------
(* Preload: the channels the renderer can invoke.  The main process handles *)
(* no other channel, and none of these copies a backup over a file.         *)

ALLOWED_CHANNELS ==
    {"system:get-platform", "settings:load", "settings:save",
     "aliases:load", "aliases:save", "aliases:import", "aliases:export",
     "shell:detect", "file:read", "file:write", "file:backup"}

validateChannel(channel) == channel \in ALLOWED_CHANNELS

NoRestore ==
    [requested |-> FALSE, success |-> FALSE, error |-> "", afterCall |-> 0,
     hadBackup |-> FALSE]

\* invokeSecure(channel, configPath, "latest") for the restore of the config
\* file, asked for when no export is running: the channel is not allowed
\* and the call throws before anything reaches the main process
restoreFile(channel) ==
    /\ ~restoreReply.requested
    /\ allDone
    /\ ~validateChannel(channel)
    /\ restoreReply' = [requested |-> TRUE, success |-> FALSE,
                        error |-> "IPC channel not allowed",
                        afterCall |-> Len(calls), hadBackup |-> backups # NoBackups]
    /\ UNCHANGED <<exportVars, importVars, platform, currentShell, uiAliases,
                   selectedAliases, filterTag, searchQuery, saves, stored, nextId,
                   importDoc, fileImport, pendingImportValidation,
                   currentPrefixValue, uiSteps, shellInfo>>

----------------------------------------------------------------------------
(* Renderer: the alias collection state.aliases and what the user does to   *)
(* it.  Every handler changes the collection at once, calls saveAliases()   *)
(* and, in the callback that runs when the save has resolved with success,  *)
(* exportAliasesToShell().  Nothing orders the handlers of the main process *)
(* that are then in flight.                                                 *)

\* an alias as the modal builds it; an id is a text like a name
UiAlias(id, name, command, tags, enabled) ==
    [id |-> id, name |-> name, command |-> command, description |-> <<>>,
     tags |-> tags, enabled |-> enabled, source |-> "user"]

\* generateId(): alias-<Date.now()>-<random>, an id not handed out before
generateId == <<"alias-", ToString(nextId)>>

\* state.aliases.find(a => a.id === id) and findIndex: the position of the
\* first alias with the id, 0 when there is none
findIndex(aliases, id) ==
    IF \E k \in 1..Len(aliases) : aliases[k].id = id
    THEN CHOOSE k \in 1..Len(aliases) :
            aliases[k].id = id /\ \A j \in 1..(k - 1) : aliases[j].id # id
    ELSE 0

\* saveAliases(): aliases:save is invoked with the collection as it is now;
\* `next` is what the caller does when the save has resolved with success
saveAliases(aliases, next) == saves' = Append(saves, [data |-> aliases, next |-> next])

\* one more action of the user, of at most `limit`
UserActs(limit) ==
    /\ uiSteps < limit
    /\ uiSteps' = uiSteps + 1

\* exportAliasesToShell(): aliases:export is invoked with state.aliases; the
\* handler runs up to its first await
exportAliasesToShell(aliases, lastTime) ==
    \E t \in 0..lastTime :
        /\ ReadClock(t, lastTime)
        /\ calls' = Append(calls, newCall(aliases, currentShell, t))

\* the "Export to Shell" menu entry
ExportClick(limit, lastTime) ==
    /\ UserActs(limit)
    /\ exportAliasesToShell(uiAliases, lastTime)
    /\ UNCHANGED <<configExists, configText, backups, faults, importVars,
                   hostVars, uiAliases, selectedAliases, filterTag,
                   searchQuery, saves, stored, nextId, importDoc, fileImport,
                   pendingImportValidation, currentPrefixValue>>

\* the aliases:save handler writes aliases.json and the renderer's callback
\* runs: on success it exports the collection as it is by then; a failed save
\* (the handler throws) is only reported
SaveDone(k, ok, lastTime, maxFaults) ==
    /\ k \in 1..Len(saves)
    /\ saves' = [j \in 1..(Len(saves) - 1) |-> IF j < k THEN saves[j] ELSE saves[j + 1]]
    /\ \/ /\ ok
          /\ stored' = saves[k].data
          /\ IF saves[k].next = "export"
             THEN exportAliasesToShell(uiAliases, lastTime)
             ELSE UNCHANGED <<calls, now>>
          /\ UNCHANGED faults
       \/ /\ Fails(ok, maxFaults)
          /\ UNCHANGED <<stored, calls, now>>
    /\ UNCHANGED <<configExists, configText, backups, importVars,
                   hostVars, uiAliases, selectedAliases, filterTag,
                   searchQuery, nextId, importDoc, fileImport,
                   pendingImportValidation, currentPrefixValue, uiSteps>>

\* what the handlers below leave alone
MainFrame ==
    UNCHANGED <<exportVars, importVars, hostVars, importDoc,
                fileImport, pendingImportValidation>>

RendererFrame == MainFrame /\ UNCHANGED currentPrefixValue

\* toggleAliasEnabled(id, enabled): the switch of a table row
toggleAliasEnabled(id, enabled, limit) ==
    LET k == findIndex(uiAliases, id)
    IN /\ k # 0
       /\ UserActs(limit)
       /\ uiAliases' = [uiAliases EXCEPT ![k].enabled = enabled]
       /\ saveAliases(uiAliases', "export")
       /\ RendererFrame
       /\ UNCHANGED <<selectedAliases, filterTag, searchQuery, stored, nextId>>

\* deleteAlias(id), the confirm() answered with yes
deleteAlias(id, limit) ==
    /\ findIndex(uiAliases, id) # 0
    /\ UserActs(limit)
    /\ uiAliases' = SelectSeq(uiAliases, LAMBDA a : a.id # id)
    /\ saveAliases(uiAliases', "export")
    /\ RendererFrame
    /\ UNCHANGED <<selectedAliases, filterTag, searchQuery, stored, nextId>>

\* saveAliasFromModal(): the modal's fields are trimmed, name and command
\* must not be empty; editing = <<>> is state.editingAlias = null (create)
saveAliasFromModal(editing, name0, command0, limit) ==
    LET name == trim(name0)
        command == trim(command0)
        id == IF editing = <<>> THEN generateId ELSE editing
        aliasData == UiAlias(id, name, command, <<>>, TRUE)
        index == findIndex(uiAliases, editing)
    IN /\ name # <<>>
       /\ command # <<>>
       /\ UserActs(limit)
       /\ IF editing # <<>>
          THEN /\ uiAliases' = IF index # 0
                                THEN [uiAliases EXCEPT ![index] = aliasData]
                                ELSE uiAliases
               /\ UNCHANGED nextId
          ELSE /\ uiAliases' = Append(uiAliases, aliasData)
               /\ nextId' = nextId + 1
       /\ saveAliases(uiAliases', "export")
       /\ RendererFrame
       /\ UNCHANGED <<selectedAliases, filterTag, searchQuery, stored>>

----------------------------------------------------------------------------
(* Renderer: selection, filter and the bulk actions.  A tag is one token.   *)

UpperCase == <<"A","B","C","D","E","F","G","H","I","J","K","L","M",
               "N","O","P","Q","R","S","T","U","V","W","X","Y","Z">>
LowerCase == <<"a","b","c","d","e","f","g","h","i","j","k","l","m",
               "n","o","p","q","r","s","t","u","v","w","x","y","z">>

toLowerCase(s) ==
    [k \in 1..Len(s) |->
        IF \E n \in 1..Len(UpperCase) : UpperCase[n] = s[k]
        THEN LowerCase[CHOOSE n \in 1..Len(UpperCase) : UpperCase[n] = s[k]]
        ELSE s[k]]

\* String.prototype.includes / startsWith
includes(s, sub) == \E k \in 0..(Len(s) - Len(sub)) : SubSeq(s, k + 1, k + Len(sub)) = sub
startsWith(s, sub) == Len(sub) <= Len(s) /\ SubSeq(s, 1, Len(sub)) = sub

\* Array.prototype.includes on the tags of an alias
hasTag(alias, tag) == \E k \in 1..Len(alias.tags) : alias.tags[k] = tag

\* getFilteredAliases(): the aliases the table shows
matchesFilter(alias, tag, query) ==
    /\ (tag # "all") => hasTag(alias, tag)
    /\ (query # <<>>) =>
          LET q == toLowerCase(query)
          IN \/ includes(toLowerCase(alias.name), q)
             \/ includes(toLowerCase(alias.command), q)
             \/ includes(toLowerCase(alias.description), q)

getFilteredAliases(aliases, tag, query) ==
    SelectSeq(aliases, LAMBDA a : matchesFilter(a, tag, query))

\* getSelectedFilteredAliases(): the ticked ids that the table shows
getSelectedFilteredAliases(aliases, selected, tag, query) ==
    LET filtered == getFilteredAliases(aliases, tag, query)
    IN {id \in selected : \E k \in 1..Len(filtered) : filtered[k].id = id}

selectedIds == getSelectedFilteredAliases(uiAliases, selectedAliases, filterTag, searchQuery)

\* the aliases selectedIds.forEach(id => state.aliases.find(a => a.id === id))
\* reaches: for each id the first alias that has it
foundPositions(aliases, ids) == {findIndex(aliases, id) : id \in ids} \ {0}

\* the checkbox of a table row; the row is one of the rows shown
RowCheckbox(id, checked, limit) ==
    /\ UserActs(limit)
    /\ \E k \in 1..Len(uiAliases) :
          uiAliases[k].id = id /\ matchesFilter(uiAliases[k], filterTag, searchQuery)
    /\ checked = (id \notin selectedAliases)
    /\ selectedAliases' = IF checked THEN selectedAliases \cup {id}
                                      ELSE selectedAliases \ {id}
    /\ RendererFrame
    /\ UNCHANGED <<uiAliases, filterTag, searchQuery, saves, stored, nextId>>

\* a click on a tag chip; the chips are "all" and the tags in use
TagChip(tag, limit) ==
    /\ UserActs(limit)
    /\ tag # filterTag
    /\ tag = "all" \/ \E k \in 1..Len(uiAliases) : hasTag(uiAliases[k], tag)
    /\ filterTag' = tag
    /\ RendererFrame
    /\ UNCHANGED <<uiAliases, selectedAliases, searchQuery, saves, stored, nextId>>

\* typing into the search box
SearchInput(query, limit) ==
    /\ UserActs(limit)
    /\ query # searchQuery
    /\ searchQuery' = query
    /\ RendererFrame
    /\ UNCHANGED <<uiAliases, selectedAliases, filterTag, saves, stored, nextId>>

\* the bulk actions menu is shown while something is ticked
BulkMenuShown == selectedAliases # {}

\* bulkDeleteAliases(), the confirmation dialog answered with yes
bulkDeleteAliases(limit) ==
    /\ BulkMenuShown
    /\ selectedIds # {}
    /\ UserActs(limit)
    /\ uiAliases' = SelectSeq(uiAliases, LAMBDA a : a.id \notin selectedIds)
    /\ selectedAliases' = selectedAliases \ selectedIds
    /\ saveAliases(uiAliases', "export")
    /\ RendererFrame
    /\ UNCHANGED <<filterTag, searchQuery, stored, nextId>>

\* bulkEnableAliases() and bulkDisableAliases()
bulkSetEnabled(enabled, limit) ==
    /\ BulkMenuShown
    /\ selectedIds # {}
    /\ UserActs(limit)
    /\ uiAliases' = [k \in 1..Len(uiAliases) |->
                        IF k \in foundPositions(uiAliases, selectedIds)
                        THEN [uiAliases[k] EXCEPT !.enabled = enabled]
                        ELSE uiAliases[k]]
    /\ saveAliases(uiAliases', "export")
    /\ RendererFrame
    /\ UNCHANGED <<selectedAliases, filterTag, searchQuery, stored, nextId>>

\* alias.tags.splice(alias.tags.indexOf(tag), 1)
removeTag(tags, tag) ==
    LET at == CHOOSE k \in 1..Len(tags) : tags[k] = tag /\ \A j \in 1..(k - 1) : tags[j] # tag
    IN SubSeq(tags, 1, at - 1) \o SubSeq(tags, at + 1, Len(tags))

\* addBulkTag(tag) and removeBulkTag(tag) of the Update Tags dialog
addBulkTag(tag, limit) ==
    LET hit == {k \in foundPositions(uiAliases, selectedIds) : ~hasTag(uiAliases[k], tag)}
    IN /\ BulkMenuShown
       /\ UserActs(limit)
       /\ uiAliases' = [k \in 1..Len(uiAliases) |->
                           IF k \in hit
                           THEN [uiAliases[k] EXCEPT !.tags = Append(@, tag)]
                           ELSE uiAliases[k]]
       /\ IF hit # {} THEN saveAliases(uiAliases', "export") ELSE UNCHANGED saves
       /\ RendererFrame
       /\ UNCHANGED <<selectedAliases, filterTag, searchQuery, stored, nextId>>

removeBulkTag(tag, limit) ==
    LET hit == {k \in foundPositions(uiAliases, selectedIds) : hasTag(uiAliases[k], tag)}
    IN /\ BulkMenuShown
       /\ UserActs(limit)
       /\ uiAliases' = [k \in 1..Len(uiAliases) |->
                           IF k \in hit
                           THEN [uiAliases[k] EXCEPT !.tags = removeTag(@, tag)]
                           ELSE uiAliases[k]]
       /\ IF hit # {} THEN saveAliases(uiAliases', "export") ELSE UNCHANGED saves
       /\ RendererFrame
       /\ UNCHANGED <<selectedAliases, filterTag, searchQuery, stored, nextId>>

\* /^([a-zA-Z]+[_-])/: the letters a name starts with and the delimiter
\* right after them, <<>> when the name does not start that way
letterPrefix(name) ==
    LET run == CHOOSE n \in 0..Len(name) :
                  /\ \A k \in 1..n : name[k] \in Letters
                  /\ (n < Len(name) => name[n + 1] \notin Letters)
    IN IF run >= 1 /\ run < Len(name) /\ name[run + 1] \in {"_", "-"}
       THEN SubSeq(name, 1, run + 1)
       ELSE <<>>

\* findCommonPrefix(names) for the names at the positions `at`, names[0]
\* being `first`
findCommonPrefix(aliases, at, first) ==
    LET names == {aliases[k].name : k \in at}
        len == CHOOSE n \in 0..Len(first) :
                  /\ \A nm \in names : startsWith(nm, SubSeq(first, 1, n))
                  /\ \A m \in (n + 1)..Len(first) :
                         \E nm \in names : ~startsWith(nm, SubSeq(first, 1, m))
        prefix == SubSeq(first, 1, len)
    IN IF at = {} THEN <<>>
       ELSE IF Cardinality(at) = 1 THEN letterPrefix(first)
       ELSE IF prefix = <<>> THEN <<>>
       ELSE IF prefix[len] \in {"_", "-"} THEN prefix
       ELSE IF \A nm \in names : Len(nm) > len /\ nm[len + 1] \in {"_", "-"}
            THEN Append(prefix, first[len + 1])
       ELSE <<>>

\* showUpdatePrefixDialog() followed by bulkUpdatePrefix(): the dialog shows
\* the prefix it detects (a stale one stays in the element when it detects
\* none), the user types newPrefix0 and confirms
bulkUpdatePrefix(newPrefix0, shouldReplace, first, limit) ==
    LET at == foundPositions(uiAliases, selectedIds)
        detected == IF at = {} THEN <<>>
                    ELSE findCommonPrefix(uiAliases, at, uiAliases[first].name)
        currentPrefix == IF detected # <<>> THEN detected ELSE currentPrefixValue
        newPrefix == trim(newPrefix0)
        shouldRemovePrefix == newPrefix = <<>> /\ currentPrefix # <<>>
        renamed(a) ==
            IF shouldRemovePrefix /\ startsWith(a.name, currentPrefix)
            THEN substringFrom(a.name, Len(currentPrefix))
            ELSE IF newPrefix # <<>>
            THEN IF shouldReplace /\ currentPrefix # <<>> /\ startsWith(a.name, currentPrefix)
                 THEN newPrefix \o substringFrom(a.name, Len(currentPrefix))
                 ELSE newPrefix \o a.name
            ELSE a.name
        updated == {k \in at : newPrefix # <<>>
                                \/ (shouldRemovePrefix /\ startsWith(uiAliases[k].name, currentPrefix))}
    IN /\ BulkMenuShown
       /\ at = {} \/ first \in at
       /\ at = {} => first = 0
       /\ UserActs(limit)
       /\ currentPrefixValue' = currentPrefix
       /\ IF newPrefix = <<>> /\ currentPrefix = <<>>
          THEN UNCHANGED <<uiAliases, saves>>
          ELSE /\ uiAliases' = [k \in 1..Len(uiAliases) |->
                                   IF k \in at
                                   THEN [uiAliases[k] EXCEPT !.name = renamed(uiAliases[k])]
                                   ELSE uiAliases[k]]
               /\ IF updated # {} THEN saveAliases(uiAliases', "export")
                                  ELSE UNCHANGED saves
       /\ MainFrame
       /\ UNCHANGED <<selectedAliases, filterTag, searchQuery, stored, nextId>>

\* `${alias.name}|${alias.command || ''}`
duplicateKey(alias) == alias.name \o <<"|">> \o alias.command

\* findDuplicates(): the ids of the aliases whose key an earlier alias has
findDuplicates(aliases) ==
    {aliases[k].id : k \in {k \in 1..Len(aliases) :
        \E j \in 1..(k - 1) : duplicateKey(aliases[j]) = duplicateKey(aliases[k])}}

\* bulkRemoveDuplicates(), the confirmation dialog answered with yes
bulkRemoveDuplicates(limit) ==
    LET duplicateIds == findDuplicates(uiAliases)
    IN /\ BulkMenuShown
       /\ duplicateIds # {}
       /\ UserActs(limit)
       /\ uiAliases' = SelectSeq(uiAliases, LAMBDA a : a.id \notin duplicateIds)
       /\ saveAliases(uiAliases', "export")
       /\ RendererFrame
       /\ UNCHANGED <<selectedAliases, filterTag, searchQuery, stored, nextId>>

----------------------------------------------------------------------------
(* Renderer: import from a JSON file.  A JavaScript value is a record of    *)
(* its type t, its characters or array items s and its truth value b.       *)

Undefined == [t |-> "undefined", s |-> <<>>, b |-> FALSE]
JsNull == [t |-> "null", s |-> <<>>, b |-> FALSE]
JsString(s) == [t |-> "string", s |-> s, b |-> FALSE]
JsNumber == [t |-> "number", s |-> <<"7">>, b |-> FALSE]
JsBoolean(b) == [t |-> "boolean", s |-> <<>>, b |-> b]
JsArray(items) == [t |-> "array", s |-> items, b |-> FALSE]

\* !!v
truthy(v) ==
    CASE v.t = "string" -> v.s # <<>>
      [] v.t = "boolean" -> v.b
      [] v.t \in {"number", "array"} -> TRUE
      [] OTHER -> FALSE

\* an entry of data.aliases: null, a number, or an object with these fields
NullEntry ==
    [kind |-> "null", id |-> Undefined, name |-> Undefined, command |-> Undefined,
     tags |-> Undefined, enabled |-> Undefined]
NumberEntry == [NullEntry EXCEPT !.kind = "number"]
ObjectEntry(id, name, command, tags, enabled) ==
    [kind |-> "object", id |-> id, name |-> name, command |-> command,
     tags |-> tags, enabled |-> enabled]

\* the errors validateImportData finds in an entry, in the order it pushes them
nameError(e) == ~truthy(e.name) \/ e.name.t # "string" \/ trim(e.name.s) = <<>>
idError(e) == ~truthy(e.id) \/ e.id.t # "string"
tagsError(e) == e.tags.t # "undefined" /\ e.tags.t # "array"
enabledError(e) == e.enabled.t # "undefined" /\ e.enabled.t # "boolean"

entryErrors(e) ==
    (IF nameError(e) THEN <<"Missing or invalid 'name' field">> ELSE <<>>)
    \o (IF idError(e) THEN <<"Missing or invalid 'id' field">> ELSE <<>>)
    \o (IF tagsError(e) THEN <<"'tags' must be an array">> ELSE <<>>)
    \o (IF enabledError(e) THEN <<"'enabled' must be a boolean">> ELSE <<>>)

\* alias.name && existingNames.has(alias.name)
isDuplicate(e, existingNames) ==
    truthy(e.name) /\ e.name.t = "string" /\ e.name.s \in existingNames

\* the alias pushed to validation.valid: the entry with its defaults filled in
validAlias(e) ==
    [id |-> e.id.s, name |-> e.name.s,
     command |-> IF e.command.t = "string" THEN e.command.s ELSE <<>>,
     description |-> <<>>,
     tags |-> IF truthy(e.tags) THEN e.tags.s ELSE <<>>,
     enabled |-> IF e.enabled.t # "undefined" THEN e.enabled.b ELSE TRUE,
     source |-> "file"]

NoValidation == [threw |-> FALSE, valid |-> <<>>, invalid |-> <<>>, duplicates |-> <<>>]

\* the callback of aliases.forEach, run on entry number n of the array
RECURSIVE validateFrom(_, _, _, _)
validateFrom(entries, n, existingNames, v) ==
    IF n > Len(entries) THEN v
    ELSE LET e == entries[n]
         IN IF e.kind = "null"
            THEN [v EXCEPT !.threw = TRUE]      \* alias.name of null: TypeError
            ELSE IF isDuplicate(e, existingNames)
            THEN validateFrom(entries, n + 1, existingNames,
                    [v EXCEPT !.duplicates = Append(@, [name |-> e.name.s, line |-> n])])
            ELSE IF entryErrors(e) # <<>>
            THEN validateFrom(entries, n + 1, existingNames,
                    [v EXCEPT !.invalid = Append(@, [line |-> n, errors |-> entryErrors(e)])])
            ELSE validateFrom(entries, n + 1, existingNames,
                    [v EXCEPT !.valid = Append(@, validAlias(e))])

\* validateImportData(data); a document is [shape, entries]: shape "scalar"
\* is a document that is no object, "notArray" one whose aliases is no array
validateImportData(data, aliases) ==
    LET fileError(text) == [NoValidation EXCEPT !.invalid = <<[line |-> 0, errors |-> <<text>>]>>]
    IN IF data.shape = "scalar"
       THEN fileError("Invalid file format: Not a valid JSON object")
       ELSE IF data.shape = "notArray"
       THEN fileError("Invalid file format: 'aliases' must be an array")
       ELSE IF data.entries = <<>>
       THEN fileError("No aliases found in file")
       ELSE validateFrom(data.entries, 1, {aliases[k].name : k \in 1..Len(aliases)},
                         NoValidation)

NoDocument == [shape |-> "none", entries |-> <<>>]

\* fileImport: where the import stands, what validateImportData returned and
\* the collection it was run against
NoFileImport == [pc |-> "idle", validation |-> NoValidation, before |-> <<>>]

\* state.pendingImportValidation: null, or the validation the dialog shows
NoPending == [set |-> FALSE, validation |-> NoValidation]

\* processValidAliases(validAliases): the aliases join the collection, which
\* is saved; nothing is exported
processValidAliases(validAliases) ==
    IF validAliases = <<>>
    THEN UNCHANGED <<uiAliases, saves>>
    ELSE /\ uiAliases' = uiAliases \o validAliases
         /\ saveAliases(uiAliases', "none")

\* importAliasesFromFile(): the user picks a file, its text is parsed to
\* `data` and validated
importAliasesFromFile(data, limit) ==
    LET validation == validateImportData(data, uiAliases)
        outcome(pc) == [pc |-> pc, validation |-> validation, before |-> uiAliases]
    IN /\ fileImport.pc # "dialog"
       /\ UserActs(limit)
       /\ importDoc' = data
       /\ IF validation.threw            \* caught: "Invalid JSON file format"
          THEN /\ fileImport' = outcome("failed")
               /\ UNCHANGED <<uiAliases, saves, pendingImportValidation>>
          ELSE IF validation.invalid # <<>>
          THEN /\ fileImport' = outcome("dialog")     \* showValidationErrorDialog
               /\ pendingImportValidation' = [set |-> TRUE, validation |-> validation]
               /\ UNCHANGED <<uiAliases, saves>>
          ELSE /\ fileImport' = outcome("done")
               /\ processValidAliases(validation.valid)
               /\ UNCHANGED pendingImportValidation
       /\ UNCHANGED <<exportVars, importVars, hostVars, selectedAliases,
                      filterTag, searchQuery, stored, nextId, currentPrefixValue>>

\* the Continue button of the validation dialog: hideValidationErrorDialog()
\* sets state.pendingImportValidation to null, and the argument of
\* processValidAliases, state.pendingImportValidation.valid, then throws
ValidationContinue ==
    /\ fileImport.pc = "dialog"
    /\ pendingImportValidation.set
    /\ pendingImportValidation.validation.valid # <<>>
    /\ pendingImportValidation' = NoPending
    /\ fileImport' = [fileImport EXCEPT !.pc = "failed"]
    /\ UNCHANGED <<exportVars, importVars, hostVars, uiAliases,
                   selectedAliases, filterTag, searchQuery, saves, stored, nextId,
                   importDoc, currentPrefixValue, uiSteps>>

\* the Exit and the close button of the validation dialog
ValidationExit ==
    /\ fileImport.pc = "dialog"
    /\ pendingImportValidation' = NoPending
    /\ fileImport' = [fileImport EXCEPT !.pc = "cancelled"]
    /\ UNCHANGED <<exportVars, importVars, hostVars, uiAliases,
                   selectedAliases, filterTag, searchQuery, saves, stored, nextId,
                   importDoc, currentPrefixValue, uiSteps>>

\* importAliasesFromShell() after aliases:import has replied: the records
\* with a name the collection does not have join it, and it is saved; nothing
\* is exported.  The ids the main process gave them are new ones.
ImportMerge ==
    LET got == importReply.aliases
        withIds == [k \in 1..Len(got) |->
                      [id |-> <<"imported-", ToString(nextId + k)>>,
                       name |-> got[k].name, command |-> got[k].command,
                       description |-> got[k].description, tags |-> got[k].tags,
                       enabled |-> got[k].enabled, source |-> got[k].source]]
        existingNames == {uiAliases[k].name : k \in 1..Len(uiAliases)}
        newAliases == SelectSeq(withIds, LAMBDA a : a.name \notin existingNames)
    IN /\ importPc = "done"
       /\ importPc' = "merged"
       /\ IF importReply.success /\ got # <<>> /\ newAliases # <<>>
          THEN /\ uiAliases' = uiAliases \o newAliases
               /\ saveAliases(uiAliases', "none")
               /\ nextId' = nextId + Len(got)
          ELSE UNCHANGED <<uiAliases, saves, nextId>>
       /\ UNCHANGED <<exportVars, stdout, importReply, hostVars,
                      selectedAliases, filterTag, searchQuery, stored, importDoc,
                      fileImport, pendingImportValidation, currentPrefixValue, uiSteps>>

----------------------------------------------------------------------------
(* Shell detection: ipcMain.handle("shell:detect") and detectShell() of the *)
(* renderer.  A path is a sequence of characters; <<>> is an unset SHELL.   *)

\* path.basename(p) on a POSIX platform: what follows the last "/"
RECURSIVE basename(_)
basename(p) ==
    IF indexOf(p, "/") = -1 THEN p ELSE basename(substringFrom(p, indexOf(p, "/") + 1))

\* shell:detect has not been asked
NoShellInfo ==
    [asked |-> FALSE, platform |-> "", defaultShell |-> "", shellPath |-> <<>>,
     configPath |-> ""]

\* the reply of the shell:detect handler; envShell is process.env.SHELL
shellDetect(plat, envShell) ==
    LET shellPath == IF envShell # <<>> THEN envShell
                     ELSE IF plat = "win32"
                          THEN <<"p","o","w","e","r","s","h","e","l","l",".","e","x","e">>
                          ELSE <<"/","b","i","n","/","b","a","s","h">>
        shellName == basename(shellPath)
        defaultShell ==
            IF plat = "win32" THEN "powershell"
            ELSE IF includes(shellName, <<"z","s","h">>) THEN "zsh"
            ELSE IF includes(shellName, <<"b","a","s","h">>) THEN "bash"
            ELSE IF includes(shellName, <<"f","i","s","h">>) THEN "fish"
            ELSE "bash"
    IN [asked |-> TRUE, platform |-> plat, defaultShell |-> defaultShell,
        shellPath |-> shellPath,
        configPath |-> getShellConfigPath(defaultShell, plat)]

\* detectShell() of the renderer, at start-up: state.currentShell becomes the
\* detected shell
detectShell(envShell) ==
    /\ ~shellInfo.asked
    /\ calls = <<>>
    /\ shellInfo' = shellDetect(platform, envShell)
    /\ currentShell' = shellInfo'.defaultShell
    /\ UNCHANGED <<exportVars, importVars, platform, uiAliases, restoreReply,
                   selectedAliases, filterTag, searchQuery, saves, stored, nextId,
                   importDoc, fileImport, pendingImportValidation,
                   currentPrefixValue, uiSteps>>

----------------------------------------------------------------------------
(* Specification of the exporter: any config file, one shell.  The caller   *)
(* starts an export only when the one before it has returned.               *)

FileAlphabet == {"x", NL, blockStart, blockEnd}

ImportIdle ==
    /\ stdout = <<>>
    /\ importPc = "idle"
    /\ importReply = NoReply

\* the renderer right after loadAliases: nothing ticked, no filter, nothing in flight
RendererIdle ==
    /\ selectedAliases = {}
    /\ filterTag = "all"
    /\ searchQuery = <<>>
    /\ saves = <<>>
    /\ stored = uiAliases
    /\ nextId = 0
    /\ importDoc = NoDocument
    /\ fileImport = NoFileImport
    /\ pendingImportValidation = NoPending
    /\ currentPrefixValue = <<>>
    /\ restoreReply = NoRestore
    /\ uiSteps = 0
    /\ shellInfo = NoShellInfo

ExportIdle ==
    /\ backups = NoBackups
    /\ now = 0
    /\ calls = <<>>
    /\ faults = 0

Init ==
    /\ platform = "darwin"
    /\ currentShell = "zsh"
    /\ uiAliases \in {<<gs>>, <<gs, off>>}
    /\ configExists \in BOOLEAN
    /\ configText \in (IF configExists THEN SeqsUpTo(FileAlphabet, MaxLen) ELSE {<<>>})
    /\ ExportIdle
    /\ ImportIdle
    /\ RendererIdle

Next == ExportNext(MaxExports, MaxTime, MaxFaults)

Spec == Init /\ [][Next]_vars

----------------------------------------------------------------------------
(* Specification of the rendering: any alias collection, shell and          *)
(* platform, exported to a missing or a plain config file.                  *)

InitRender ==
    /\ platform \in Platforms
    /\ currentShell \in ShellIds
    /\ uiAliases \in SeqsUpTo(AliasPool, MaxAliases)
    /\ configExists \in BOOLEAN
    /\ configText = (IF configExists THEN <<"x", NL>> ELSE <<>>)
    /\ ExportIdle
    /\ ImportIdle
    /\ RendererIdle

NextRender == ExportNext(RenderExports, 0, RenderFaults)

SpecRender == InitRender /\ [][NextRender]_vars

----------------------------------------------------------------------------
(* Specification of the backups: repeated exports of one collection to an   *)
(* existing file, every file operation succeeding, and a request to         *)
(* restore the file.                                                        *)

InitBackups ==
    /\ platform = "darwin"
    /\ currentShell = "zsh"
    /\ uiAliases = <<gs>>
    /\ configExists = TRUE
    /\ configText = <<"x", NL>>
    /\ ExportIdle
    /\ ImportIdle
    /\ RendererIdle

NextBackups ==
    \/ ExportNext(MaxBackupExports, MaxBackupTime, 0)
    \/ restoreFile("file:restore")

SpecBackups == InitBackups /\ [][NextBackups]_vars

----------------------------------------------------------------------------
(* Specification of the live-shell import: the shell prints some lines, or  *)
(* prints back the statement the exporter renders for one alias.            *)

joinLines(ls) == Flatten([i \in 1..Len(ls) |-> ls[i] \o <<NL>>])

ShellLines ==
    { <<"g", "=", "'", "x", "'">>,
      <<"-", "=", "'", "c", "d", " ", "-", "'">>,
      <<"alias ", "s", "=", "x">>,
      <<"g", " ", " ", "x">>,
      <<"-", " ", " ", "x">>,
      <<ESC, "[", "0", "m", "k", "=", "x">>,
      <<"x">> }

CommandAlphabet == {"l", "'", " "}

\* records with a valid name and a command holding a single quote
QuotedRecords ==
    { Alias(n, c, <<>>, TRUE) :
        n \in {<<"g">>, <<"g", "s">>},
        c \in {c \in SeqsUpTo(CommandAlphabet, MaxCommand) : \E k \in 1..Len(c) : c[k] = "'"} }

\* the shells the renderer offers on a platform
ShellsOf(plat) == IF plat = "win32" THEN {"powershell", "cmd"} ELSE {"zsh", "bash", "fish"}

InitImport ==
    /\ platform \in {"darwin", "win32"}
    /\ currentShell \in ShellsOf(platform)
    /\ \/ /\ uiAliases = <<>>
          /\ stdout \in {joinLines(ls) : ls \in SeqsUpTo(ShellLines, MaxLines)}
       \/ /\ uiAliases \in {<<r>> : r \in QuotedRecords}
          /\ stdout = unixStatement(uiAliases[1])
    /\ importPc = "idle"
    /\ importReply = NoReply
    /\ configExists = FALSE
    /\ configText = <<>>
    /\ ExportIdle
    /\ RendererIdle

SpecImport == InitImport /\ [][ImportNext]_vars

----------------------------------------------------------------------------
(* Specification of the config paths: an export to any shell on any         *)
(* platform, named by the caller of aliases:export or detected at start-up. *)

EnvShells ==
    { <<>>,
      <<"/","b","i","n","/","z","s","h">>,
      <<"/","b","i","n","/","b","a","s","h">>,
      <<"/","b","i","n","/","f","i","s","h">>,
      <<"/","b","i","n","/","s","h">>,
      <<"/","z","s","h","/","f","i","s","h">> }

InitPaths ==
    /\ platform \in Platforms
    /\ currentShell \in ShellIds
    /\ uiAliases = <<gs>>
    /\ configExists \in BOOLEAN
    /\ configText = (IF configExists THEN <<"x", NL>> ELSE <<>>)
    /\ ExportIdle
    /\ ImportIdle
    /\ RendererIdle

NextPaths ==
    \/ \E envShell \in EnvShells : detectShell(envShell)
    \/ ExportNext(RenderExports, 0, RenderFaults)

SpecPaths == InitPaths /\ [][NextPaths]_vars

----------------------------------------------------------------------------
(* Specification of the sanitisation: the shell prints any short text of    *)
(* printable characters, escape sequences and control characters.           *)

RawAlphabet == {ESC, "[", "]", "?", "m", "x", BEL, "\r", NL}

InitSanitise ==
    /\ platform = "darwin"
    /\ currentShell = "zsh"
    /\ uiAliases = <<>>
    /\ stdout \in SeqsUpTo(RawAlphabet, MaxRaw)
    /\ importPc = "idle"
    /\ importReply = NoReply
    /\ configExists = FALSE
    /\ configText = <<>>
    /\ ExportIdle
    /\ RendererIdle

SpecSanitise == InitSanitise /\ [][ImportNext]_vars

----------------------------------------------------------------------------
(* Specification of the renderer: the user edits the collection, imports    *)
(* and exports; the handlers of the main process run as they are invoked.   *)

a1 == UiAlias(<<"a", "1">>, <<"g", "s">>, <<"l", "s">>, <<"w">>, TRUE)
a2 == UiAlias(<<"a", "2">>, <<"z">>, <<"q">>, <<>>, FALSE)

InitialCollection == <<a1, a2>>

idsOf(aliases) == {aliases[k].id : k \in 1..Len(aliases)}

ModalNames == {<<"n">>, <<"g", "s">>, <<" ">>}
ModalCommands == {<<"c", " ">>}

Document(entries) == [shape |-> "array", entries |-> entries]

plainEntry == ObjectEntry(JsString(<<"d", "1">>), JsString(<<"n", "1">>),
                          JsString(<<"c">>), Undefined, Undefined)
badEntry == ObjectEntry(Undefined, JsString(<<"n", "2">>),
                        JsString(<<"c">>), Undefined, Undefined)

UiDocuments == {Document(<<plainEntry>>), Document(<<plainEntry, badEntry>>)}

InitUi ==
    /\ platform = "darwin"
    /\ currentShell = "zsh"
    /\ uiAliases = InitialCollection
    /\ configExists = TRUE
    /\ configText = <<"x", NL>>
    /\ ExportIdle
    /\ stdout = <<"k", "=", "'", "x", "'", NL>>
    /\ importPc = "idle"
    /\ importReply = NoReply
    /\ RendererIdle

NextUi ==
    \/ \E k \in 1..Len(uiAliases) :
          toggleAliasEnabled(uiAliases[k].id, ~uiAliases[k].enabled, MaxUiSteps)
    \/ \E id \in idsOf(uiAliases) : deleteAlias(id, MaxUiSteps)
    \/ \E editing \in {<<>>} \cup idsOf(uiAliases), name0 \in ModalNames,
          command0 \in ModalCommands :
          saveAliasFromModal(editing, name0, command0, MaxUiSteps)
    \/ ExportClick(MaxUiSteps, UiTime)
    \/ ImportInvoke
    \/ \E ok \in BOOLEAN : ImportFinish(ok)
    \/ ImportMerge
    \/ \E data \in UiDocuments : importAliasesFromFile(data, MaxUiSteps)
    \/ ValidationContinue
    \/ ValidationExit
    \/ \E k \in 1..Len(saves), ok \in BOOLEAN : SaveDone(k, ok, UiTime, UiFaults)
    \/ \E i \in 1..Len(calls), ok \in BOOLEAN : CopyStep(i, ok, UiFaults)
    \/ \E i \in 1..Len(calls), ok \in BOOLEAN : ReadStep(i, ok, UiTime, UiFaults)
    \/ \E i \in 1..Len(calls), ok \in BOOLEAN : WriteStep(i, ok, UiFaults)

SpecUi == InitUi /\ [][NextUi]_vars

----------------------------------------------------------------------------
(* Specification of the import from a file: the collection is the initial   *)
(* one, the user picks any document of at most MaxEntries entries.          *)

IdValues == {JsString(<<"d", "1">>), Undefined, JsString(<<>>), JsNumber}
NameValues == {JsString(<<"n", "1">>), JsString(<<"g", "s">>), Undefined,
               JsString(<<" ">>), JsNumber}
TagsValues == {Undefined, JsArray(<<"w">>), JsString(<<"w">>), JsNull}
EnabledValues == {Undefined, JsBoolean(FALSE), JsString(<<"y">>), JsNull}

\* the entry every other object entry is a variation of
usualEntry == ObjectEntry(JsString(<<"d", "1">>), JsString(<<"n", "1">>),
                          JsString(<<"c">>), Undefined, Undefined)

deviations(e) ==
    (IF e.id # usualEntry.id THEN 1 ELSE 0) + (IF e.name # usualEntry.name THEN 1 ELSE 0)
    + (IF e.tags # usualEntry.tags THEN 1 ELSE 0)
    + (IF e.enabled # usualEntry.enabled THEN 1 ELSE 0)

EntryPool ==
    {e \in {ObjectEntry(id, name, JsString(<<"c">>), tags, enabled) :
                id \in IdValues, name \in NameValues,
                tags \in TagsValues, enabled \in EnabledValues} :
        deviations(e) <= MaxDeviations}
    \cup {NullEntry, NumberEntry}

FileDocuments ==
    {Document(entries) : entries \in SeqsUpTo(EntryPool, MaxEntries)}
    \cup {[shape |-> "scalar", entries |-> <<>>], [shape |-> "notArray", entries |-> <<>>]}

InitFileImport ==
    /\ platform = "darwin"
    /\ currentShell = "zsh"
    /\ uiAliases = InitialCollection
    /\ configExists = TRUE
    /\ configText = <<"x", NL>>
    /\ ExportIdle
    /\ ImportIdle
    /\ RendererIdle

NextFileImport ==
    \/ \E data \in FileDocuments : importAliasesFromFile(data, FileImports)
    \/ ValidationContinue
    \/ ValidationExit
    \/ \E k \in 1..Len(saves), ok \in BOOLEAN : SaveDone(k, ok, UiTime, UiFaults)

SpecFileImport == InitFileImport /\ [][NextFileImport]_vars

----------------------------------------------------------------------------
(* Specification of the bulk actions: a collection with two aliases of the  *)
(* same name and command; the user ticks rows, filters, imports a file and  *)
(* runs bulk actions.                                                       *)

b1 == UiAlias(<<"a", "1">>, <<"g", "s">>, <<"l", "s">>, <<"w">>, TRUE)
b2 == UiAlias(<<"a", "2">>, <<"g", "s">>, <<"l", "s">>, <<>>, TRUE)
b3 == UiAlias(<<"a", "3">>, <<"g", "_", "z">>, <<"q">>, <<>>, FALSE)

\* a document that holds the same alias twice
BulkDocuments == {Document(<<plainEntry, plainEntry>>)}

BulkTags == {"w", "v"}
BulkQueries == {<<>>, <<"S">>}
BulkPrefixes == {<<>>, <<"p", "_", " ">>}

\* the actions of the bulk actions menu
BulkAction(limit) ==
    \/ bulkDeleteAliases(limit)
    \/ \E enabled \in BOOLEAN : bulkSetEnabled(enabled, limit)
    \/ \E tag \in BulkTags : addBulkTag(tag, limit)
    \/ \E tag \in BulkTags : removeBulkTag(tag, limit)
    \/ \E newPrefix0 \in BulkPrefixes, shouldReplace \in BOOLEAN,
          first \in 0..Len(uiAliases) :
          bulkUpdatePrefix(newPrefix0, shouldReplace, first, limit)
    \/ bulkRemoveDuplicates(limit)

InitBulk ==
    /\ platform = "darwin"
    /\ currentShell = "zsh"
    /\ uiAliases = <<b1, b2, b3>>
    /\ configExists = TRUE
    /\ configText = <<"x", NL>>
    /\ ExportIdle
    /\ ImportIdle
    /\ RendererIdle

NextBulk ==
    \/ \E id \in idsOf(uiAliases), checked \in BOOLEAN : RowCheckbox(id, checked, MaxBulkSteps)
    \/ \E tag \in BulkTags \cup {"all"} : TagChip(tag, MaxBulkSteps)
    \/ \E query \in BulkQueries : SearchInput(query, MaxBulkSteps)
    \/ BulkAction(MaxBulkSteps)
    \/ \E data \in BulkDocuments : importAliasesFromFile(data, MaxBulkSteps)
    \/ \E k \in 1..Len(saves), ok \in BOOLEAN : SaveDone(k, ok, UiTime, UiFaults)
    \/ \E i \in 1..Len(calls), ok \in BOOLEAN : CopyStep(i, ok, UiFaults)
    \/ \E i \in 1..Len(calls), ok \in BOOLEAN : ReadStep(i, ok, UiTime, UiFaults)
    \/ \E i \in 1..Len(calls), ok \in BOOLEAN : WriteStep(i, ok, UiFaults)

SpecBulk == InitBulk /\ [][NextBulk]_vars

----------------------------------------------------------------------------
(* Vocabulary of the properties *)

Finished(i) == calls[i].pc = "done"
Succeeded(i) == calls[i].pc = "done" /\ calls[i].result = "success"

\* return { success: true, path: configPath, backupPath }: the reply of a
\* successful export always carries the backup path the handler computed
reportsBackupPath(i) == calls[i].result = "success"

\* sub occurs in s as a contiguous piece
Occurs(sub, s) == \E k \in 0..(Len(s) - Len(sub)) : SubSeq(s, k + 1, k + Len(sub)) = sub

\* positions (1-based) of the managed block of a text: the first start marker
\* and the first end marker after it
BlockFrom(text) == indexOf(text, blockStart) + 1
BlockTo(text) ==
    LET from == BlockFrom(text)
        after == SubSeq(text, from + 1, Len(text))
    IN IF from = 0 \/ indexOf(after, blockEnd) = -1 THEN 0
       ELSE from + indexOf(after, blockEnd) + 1
HasBlock(text) == BlockTo(text) # 0
TextBefore(text) == IF HasBlock(text) THEN SubSeq(text, 1, BlockFrom(text) - 1) ELSE text
TextAfter(text) == IF HasBlock(text) THEN SubSeq(text, BlockTo(text) + 1, Len(text)) ELSE <<>>

\* the content of the config file immediately before call i wrote
ContentBefore(i) == IF calls[i].existedAtWrite THEN calls[i].textAtWrite ELSE <<>>

\* a text with the timestamp of every "Last updated" line blanked
MaskTimestamp(text) ==
    [k \in 1..Len(text) |-> IF k > 1 /\ text[k - 1] = lastUpdated THEN "*" ELSE text[k]]

\* the lines of the last managed block of a text, markers excluded
BlockLines(text) ==
    LET starts == {k \in 1..Len(text) : text[k] = blockStart}
        ends == {k \in 1..Len(text) : text[k] = blockEnd}
        from == CHOOSE k \in starts : \A j \in starts : j <= k
        to == CHOOSE k \in ends : \A j \in ends : j <= k
    IN IF starts = {} \/ ends = {} THEN <<>>
       ELSE nonEmptyLines(SubSeq(text, from + 1, to - 1))

IsStatement(line) == Head(line) \in {"alias ", "function "}

\* the alias name a statement line defines: what stands between the keyword
\* and the "=" or the " { "
StatementName(line) ==
    LET body == Tail(line)
        stop == IF Head(line) = "alias " THEN indexOf(body, "=") ELSE indexOf(body, " { ")
    IN SubSeq(body, 1, stop)

\* the names defined by the statement lines of the block call i built, in order
StatementNames(i) ==
    LET ls == SelectSeq(BlockLines(calls[i].written), IsStatement)
    IN [k \in 1..Len(ls) |-> StatementName(ls[k])]

Built(i) == calls[i].pc \in {"write", "done"}

Times(seq, x) == Cardinality({k \in 1..Len(seq) : seq[k] = x})

EnabledNamed(i, name) ==
    Cardinality({k \in 1..Len(calls[i].aliases) :
                    calls[i].aliases[k].enabled /\ calls[i].aliases[k].name = name})

----------------------------------------------------------------------------
(* Properties of the exporter *)

\* C1: after a successful export, the text that was outside the managed block is
\* in the written file unchanged and on the same side of the block: what was
\* before the block is before the written block, what was after it is after it.
C1_OutsideTextKeptInPlace ==
    \A i \in 1..Len(calls) :
        Succeeded(i) =>
            LET old == ContentBefore(i)
                new == calls[i].written
            IN \E from \in 1..Len(new), to \in 1..Len(new) :
                  /\ from < to
                  /\ new[from] = blockStart
                  /\ new[to] = blockEnd
                  /\ Occurs(TextBefore(old), SubSeq(new, 1, from - 1))
                  /\ Occurs(TextAfter(old), SubSeq(new, to + 1, Len(new)))

\* C2: after a successful export to a config file that existed before it, a
\* backup file holds the content the config file had just before the write.
C2_BackupHoldsOldContent ==
    LET i == Len(calls)
    IN (i >= 1 /\ Succeeded(i) /\ calls[i].existedAtStart) =>
          \E t \in DOMAIN backups : backups[t] = calls[i].textAtWrite

\* C3: when the backup of an existing config file could not be made, the
\* export reports failure and the config file keeps its content.
C3_NoWriteWithoutBackup ==
    \A i \in 1..Len(calls) :
        (Finished(i) /\ calls[i].existedAtStart /\ ~calls[i].copied) =>
            /\ calls[i].result = "error"
            /\ (i = Len(calls) => configText = calls[i].textAtStart)

\* C4: two exports of the same aliases to the same shell in a row, with no edit
\* of the file in between, write the same file except for the timestamp line.
C4_ExportTwiceSameFile ==
    \A i \in 1..(Len(calls) - 1) :
        (Succeeded(i) /\ Succeeded(i + 1)
           /\ calls[i].aliases = calls[i + 1].aliases
           /\ calls[i].shellName = calls[i + 1].shellName) =>
            MaskTimestamp(calls[i + 1].written) = MaskTimestamp(calls[i].written)

\* C5: after any sequence of exports the config file holds exactly one start
\* marker and one end marker, the start marker first.
C5_OneManagedBlock ==
    (\E i \in 1..Len(calls) : Succeeded(i)) =>
        /\ Count(configText, blockStart) = 1
        /\ Count(configText, blockEnd) = 1
        /\ indexOf(configText, blockStart) < indexOf(configText, blockEnd)

\* C7: the block an export builds holds exactly one statement line for each
\* enabled alias with a valid name, and none for a disabled alias: a name is
\* defined by as many statement lines as enabled aliases bear it.  The exports
\* follow one another and the record of a returned call never changes, so each
\* call is examined while it is the latest one.
C7_OneLinePerEnabledAlias ==
    \A i \in {Len(calls)} \ {0} :
        Built(i) =>
            LET names == StatementNames(i)
            IN \A k \in 1..Len(calls[i].aliases) :
                   LET a == calls[i].aliases[k]
                   IN ((a.enabled /\ validName(a.name)) \/ ~a.enabled) =>
                         Times(names, a.name) = EnabledNamed(i, a.name)

\* C7 witness: a successful export of a collection holding an enabled alias
\* with a valid name and a disabled alias of another name
C7_Witness ==
    \E i \in 1..Len(calls) :
        /\ Succeeded(i)
        /\ configText = calls[i].written
        /\ \E k, m \in 1..Len(calls[i].aliases) :
              /\ calls[i].aliases[k].enabled /\ validName(calls[i].aliases[k].name)
              /\ ~calls[i].aliases[m].enabled
              /\ calls[i].aliases[m].name # calls[i].aliases[k].name
              /\ Times(StatementNames(i), calls[i].aliases[k].name) = 1
              /\ Times(StatementNames(i), calls[i].aliases[m].name) = 0

\* C8: an export builds no statement line for a name that does not match
\* ^[A-Za-z_][A-Za-z0-9_-]*$, and such aliases do not make the export fail.
C8_NoLineForInvalidName ==
    \A i \in 1..Len(calls) :
        Built(i) =>
            \A k \in 1..Len(StatementNames(i)) : validName(StatementNames(i)[k])

\* C10: the backups kept for the config path never number more than backupCount.
C10_BackupsBounded == Cardinality(DOMAIN backups) <= backupCount

\* C11: a restore of the latest backup asked for after a successful export
\* to an existing config file brings back the content the file had before
\* that export; with no backup for the path the restore fails with an error
\* and the file is left as it is.
C11_RestoreUndoesExport ==
    LET i == Len(calls)
    IN /\ (restoreReply.requested /\ restoreReply.afterCall = i /\ i >= 1
           /\ Succeeded(i) /\ calls[i].existedAtStart) =>
              /\ restoreReply.success
              /\ configText = calls[i].textAtStart
       /\ (restoreReply.requested /\ ~restoreReply.hadBackup) =>
              /\ ~restoreReply.success
              /\ restoreReply.error # ""

\* C13: when writing the new text fails, the export returns a failure result
\* and the config file is exactly what it was before the export: as absent or
\* as present as it was, with the same content.
C13_FailedWriteLeavesFile ==
    LET i == Len(calls)
    IN (i >= 1 /\ Finished(i) /\ calls[i].result = "error") =>
          /\ configExists = calls[i].existedAtStart
          /\ configText = calls[i].textAtStart

----------------------------------------------------------------------------
(* Properties of the importer *)

Imported == importPc = "done" /\ importReply.execOk

\* C6: a record with a valid name and a command holding single quotes, rendered
\* as a POSIX statement and parsed by the POSIX importer, comes back with the
\* same name and the same command.
C6_RoundTrip ==
    (Imported /\ uiAliases # <<>> /\ platform # "win32") =>
        /\ Len(importReply.aliases) = 1
        /\ importReply.aliases[1].name = uiAliases[1].name
        /\ importReply.aliases[1].command = uiAliases[1].command

\* C14: when the alias-listing process fails, the import returns an empty
\* alias list together with an error description, not a plain success.
C14_ProcessFailureReported ==
    (importPc = "done" /\ ~importReply.execOk) =>
        /\ importReply.aliases = <<>>
        /\ importReply.error
        /\ ~importReply.success

\* C9: in every grammar the import returns no record whose name does not match
\* ^[A-Za-z_][A-Za-z0-9_-]*$, and every line with a valid name is still imported.
C9_InvalidNamesSkipped ==
    Imported =>
        LET lines == nonEmptyLines(cleanOutput(stdout))
            got == importReply.aliases
        IN /\ \A k \in 1..Len(got) : validName(got[k].name)
           /\ \A n \in 1..Len(lines) :
                 LET recs == parseLine(lines[n], currentShell, platform)
                 IN (recs # <<>> /\ validName(recs[1].name)) =>
                       \E k \in 1..Len(got) : got[k] = recs[1]

----------------------------------------------------------------------------
(* Properties of the renderer *)

\* nothing is in flight: no save, no export, no import
Quiet ==
    /\ saves = <<>>
    /\ allDone
    /\ importPc \in {"idle", "merged"}

\* C12: the exports the user's actions trigger are serialized: no export
\* starts while an earlier one is between its read of the file and its write,
\* and once every export has returned with success the file is the one the
\* export of the most recent collection wrote.
C12_ExportsSerialized ==
    /\ [][Len(calls') > Len(calls) =>
             \A i \in 1..Len(calls) : calls[i].pc # "write"]_vars
    /\ []((Quiet /\ calls # <<>> /\ \A i \in 1..Len(calls) : Succeeded(i)) =>
             configText = calls[Len(calls)].written)

\* C18: once a changed collection has been saved and nothing is in flight, an
\* export of that collection has been issued.
C18_ChangeIsExported ==
    (Quiet /\ fileImport.pc # "dialog" /\ stored = uiAliases
       /\ uiAliases # InitialCollection) =>
        \E i \in 1..Len(calls) : calls[i].aliases = uiAliases

----------------------------------------------------------------------------
(* Properties of the import from a file *)

FileImported == fileImport.pc # "idle"
importedEntries == importDoc.entries
namesBefore == {fileImport.before[k].name : k \in 1..Len(fileImport.before)}

\* the entry's name is the name of an alias of the collection
NameTaken(e) == e.kind = "object" /\ e.name.t = "string" /\ e.name.s \in namesBefore

\* the rules of a well-formed entry
IdIsString(e) == e.kind = "object" /\ e.id.t = "string"
NameIsNonBlank(e) ==
    e.kind = "object" /\ e.name.t = "string"
    /\ \E k \in 1..Len(e.name.s) : e.name.s[k] \notin WhiteSpace
TagsAreArray(e) == e.tags.t \in {"undefined", "array"}
EnabledIsBoolean(e) == e.enabled.t \in {"undefined", "boolean"}
BrokenRules(e) ==
    (IF IdIsString(e) THEN 0 ELSE 1) + (IF NameIsNonBlank(e) THEN 0 ELSE 1)
    + (IF TagsAreArray(e) THEN 0 ELSE 1) + (IF EnabledIsBoolean(e) THEN 0 ELSE 1)

linesOf(list) == {list[k].line : k \in 1..Len(list)}

\* C15: an entry whose name an alias of the collection already has is listed
\* in duplicates, not in valid, and the import neither adds nor merges it:
\* the aliases the collection had are still there, unchanged, and the
\* collection has gained no alias of that name.
C15_DuplicatesExcluded ==
    (FileImported /\ importDoc.shape = "array") =>
        \A n \in 1..Len(importedEntries) :
            NameTaken(importedEntries[n]) =>
                /\ n \in linesOf(fileImport.validation.duplicates)
                /\ \A k \in 1..Len(fileImport.validation.valid) :
                      fileImport.validation.valid[k].name # importedEntries[n].name.s
                /\ SubSeq(uiAliases, 1, Len(fileImport.before)) = fileImport.before
                /\ \A k \in (Len(fileImport.before) + 1)..Len(uiAliases) :
                      uiAliases[k].name # importedEntries[n].name.s

\* C16: an entry that is no duplicate is in valid exactly when its id is a
\* string, its name a non-blank string, its tags (if present) an array and its
\* enabled (if present) a boolean; otherwise it is in invalid with one error
\* for each rule it breaks.
C16_ValidExactlyWhenWellFormed ==
    (FileImported /\ importDoc.shape = "array") =>
        LET checked == {n \in 1..Len(importedEntries) : ~NameTaken(importedEntries[n])}
            good == {n \in checked : BrokenRules(importedEntries[n]) = 0}
            v == fileImport.validation
        IN /\ Len(v.valid) = Cardinality(good)
           /\ \A n \in good :
                 \E k \in 1..Len(v.valid) :
                     /\ v.valid[k].id = importedEntries[n].id.s
                     /\ v.valid[k].name = importedEntries[n].name.s
           /\ \A n \in checked \ good :
                 \E k \in 1..Len(v.invalid) :
                     /\ v.invalid[k].line = n
                     /\ Len(v.invalid[k].errors) = BrokenRules(importedEntries[n])

\* C17: for a document with a non-empty aliases array the validation returns
\* a result, and every entry of the array is counted in exactly one of valid,
\* invalid and duplicates.
C17_EveryEntryCounted ==
    (FileImported /\ importDoc.shape = "array" /\ importedEntries # <<>>) =>
        LET v == fileImport.validation
        IN /\ ~v.threw
           /\ Len(v.valid) + Len(v.invalid) + Len(v.duplicates) = Len(importedEntries)
           /\ linesOf(v.invalid) \cap linesOf(v.duplicates) = {}

----------------------------------------------------------------------------
(* Properties of the bulk actions *)

\* the positions of the aliases no earlier alias shares name and command with
FirstOfPair(aliases) ==
    {k \in 1..Len(aliases) :
        \A j \in 1..(k - 1) :
            aliases[j].name # aliases[k].name \/ aliases[j].command # aliases[k].command}

\* `after` is `before` cut down to the positions `kept`, in order
CutDownTo(after, before, kept) ==
    /\ Len(after) = Cardinality(kept)
    /\ \A k \in kept : after[Cardinality({j \in kept : j <= k})] = before[k]

\* C19: Remove Duplicates removes exactly the aliases that an earlier alias
\* shares name and command with: the first alias of each pair stays, every
\* later one goes.
C19_RemovesLaterOfPair ==
    [][bulkRemoveDuplicates(MaxBulkSteps) =>
          CutDownTo(uiAliases', uiAliases, FirstOfPair(uiAliases))]_vars

\* the ids of the aliases that are ticked and that the search and the tag
\* filter match
Targeted ==
    {uiAliases[k].id : k \in {k \in 1..Len(uiAliases) :
        /\ uiAliases[k].id \in selectedAliases
        /\ matchesFilter(uiAliases[k], filterTag, searchQuery)}}

\* C20: a bulk action changes or removes only aliases that are ticked and
\* matched by the filter: the other aliases are the same afterwards, in the
\* same order.
C20_BulkActionsKeepTheRest ==
    [][BulkAction(MaxBulkSteps) =>
          SelectSeq(uiAliases', LAMBDA a : a.id \notin Targeted)
             = SelectSeq(uiAliases, LAMBDA a : a.id \notin Targeted)]_vars

----------------------------------------------------------------------------
(* Properties of the collection *)

\* C21: the names of the aliases of the collection are pairwise distinct,
\* whatever the user has created, edited or imported.
C21_NamesDistinct ==
    \A i, j \in 1..Len(uiAliases) :
        i # j => uiAliases[i].name # uiAliases[j].name

\* the user saves the modal while it edits the alias `editing`
ModalEdit(editing) ==
    \E name0 \in ModalNames, command0 \in ModalCommands :
        saveAliasFromModal(editing, name0, command0, MaxUiSteps)

\* C30: saving an edit of an alias leaves its id and its enabled flag as they
\* were, and every other alias of the collection unchanged.
C30_EditKeepsIdAndEnabled ==
    [][\A editing \in idsOf(uiAliases) :
          ModalEdit(editing) =>
              /\ Len(uiAliases') = Len(uiAliases)
              /\ \A k \in 1..Len(uiAliases) :
                    /\ uiAliases'[k].id = uiAliases[k].id
                    /\ uiAliases'[k].enabled = uiAliases[k].enabled
                    /\ uiAliases[k].id # editing => uiAliases'[k] = uiAliases[k]]_vars

----------------------------------------------------------------------------
(* Properties of the text an export writes *)

\* the text an export must keep of the text it read: all of it when it holds
\* no managed block, else what stands before and after the block
Remainder(text) ==
    IF HasBlock(text) THEN TextBefore(text) \o TextAfter(text) ELSE text

\* the blocks call i can have built, one for each reading of the clock
BlocksOf(i) ==
    {aliasBlock(calls[i].aliases, calls[i].shellName, platform, t) : t \in 0..MaxBackupTime}

\* C22: the block an export replaces is the span from the first start marker
\* to the first end marker after it; when there is no such span the export
\* takes nothing out of the text it read.
C22_BlockLocated ==
    \A i \in 1..Len(calls) :
        Built(i) =>
            \E block \in BlocksOf(i) :
                calls[i].written = trimEnd(Remainder(calls[i].existingContent)) \o block

\* C26: the written file is the original text without its managed block and
\* without trailing whitespace, one blank line, then the block from its start
\* marker to the newline after its end marker; for an empty or a missing
\* original it is the block alone.
C26_SplicedWithBlankLine ==
    \A i \in 1..Len(calls) :
        Built(i) =>
            LET rest == trimEnd(Remainder(calls[i].existingContent))
            IN \E block \in BlocksOf(i) :
                  calls[i].written =
                     (IF rest = <<>> THEN <<>> ELSE rest \o <<NL, NL>>) \o Tail(block)

\* `name=command`, the doskey macro form
doskeyStatement(alias) == alias.name \o <<"=">> \o alias.command \o <<NL>>

\* the statement line of an alias in the form of the target shell
ShellStatement(alias, shellName) ==
    CASE shellName \in {"zsh", "bash", "fish"} -> unixStatement(alias)
      [] shellName = "powershell" -> powershellStatement(alias)
      [] shellName = "cmd" -> doskeyStatement(alias)

\* C25: the block built for a shell of the platform holds, for every enabled
\* alias, a line that is the alias's statement in the form of that shell.
C25_StatementOfTheShell ==
    \A i \in {Len(calls)} \ {0} :
        (Built(i) /\ calls[i].shellName \in ShellsOf(platform)) =>
            \A k \in 1..Len(calls[i].aliases) :
                calls[i].aliases[k].enabled =>
                    Occurs(<<NL>> \o ShellStatement(calls[i].aliases[k], calls[i].shellName),
                           calls[i].written)

\* C23: when the config file is there and reading it fails, the export
\* reports a failure and the file keeps its content.
C23_ReadFailureAborts ==
    LET i == Len(calls)
    IN (i >= 1 /\ Finished(i) /\ calls[i].existedAtStart /\ ~calls[i].readOk) =>
          /\ calls[i].result = "error"
          /\ configText = calls[i].textAtStart

\* C24: a backup, once made, stays and keeps its content.
C24_SnapshotsImmutable ==
    [][\A t \in DOMAIN backups :
          t \in DOMAIN backups' /\ backups'[t] = backups[t]]_vars

----------------------------------------------------------------------------
(* Properties of the sanitisation *)

\* the C0 control characters other than the newline, and DEL
C0Controls == ControlChars \cup {"\t", "\r"}

\* the parameter characters of a CSI sequence the model's texts use
CsiParameters == Digits \cup {";", "?"}

\* length of the CSI sequence ESC [ parameters letter at the head of s, 0 if none
CsiLength(s) ==
    IF Len(s) >= 2 /\ s[1] = ESC /\ s[2] = "["
    THEN LET rest == SubSeq(s, 3, Len(s))
             params == spanOf(rest, CsiParameters)
         IN IF params < Len(rest) /\ rest[params + 1] \in Letters
            THEN 2 + params + 1 ELSE 0
    ELSE 0

\* a text without its OSC and CSI sequences and its control characters
RECURSIVE Sanitised(_)
Sanitised(s) ==
    IF s = <<>> THEN <<>>
    ELSE IF oscMatch(s) > 0 THEN Sanitised(SubSeq(s, oscMatch(s) + 1, Len(s)))
    ELSE IF CsiLength(s) > 0 THEN Sanitised(SubSeq(s, CsiLength(s) + 1, Len(s)))
    ELSE IF Head(s) \in C0Controls THEN Sanitised(Tail(s))
    ELSE <<Head(s)>> \o Sanitised(Tail(s))

\* C27: the text that is split into lines holds no ESC and no other control
\* character but the newline, and is the shell's output with its CSI and OSC
\* sequences and its control characters taken out: nothing of a sequence
\* is left and every other character is kept, in order.
C27_OutputSanitised ==
    Imported =>
        LET cleaned == cleanOutput(stdout)
        IN /\ \A k \in 1..Len(cleaned) : cleaned[k] \notin C0Controls
           /\ cleaned = Sanitised(stdout)

----------------------------------------------------------------------------
(* Properties of the reply of an export *)

\* C29: a successful export that reports a backup path has a backup file
\* at that path, and a successful export to a file that did not exist
\* reports no backup path.
C29_ReportedBackupExists ==
    \A i \in 1..Len(calls) :
        Succeeded(i) =>
            /\ reportsBackupPath(i) => calls[i].timestamp \in DOMAIN backups
            /\ ~calls[i].existedAtStart => ~reportsBackupPath(i)

----------------------------------------------------------------------------
(* Properties of the config paths *)

\* the default config path of each shell
DefaultPath(shellName) ==
    CASE shellName = "zsh" -> "~/.zshrc"
      [] shellName = "bash" -> "~/.bashrc"
      [] shellName = "fish" -> "~/.config/fish/config.fish"
      [] shellName = "powershell" -> "~/Documents/PowerShell/Microsoft.PowerShell_profile.ps1"
      [] shellName = "cmd" -> "~/aliases.cmd"

\* C28 as stated: for every shell id on every platform, an export goes to the
\* default path of the shell, and shell detection reports the default path
\* of the shell it detected.
C28_PathOfEveryShell ==
    /\ \A i \in 1..Len(calls) : calls[i].path = DefaultPath(calls[i].shellName)
    /\ shellInfo.asked => shellInfo.configPath = DefaultPath(shellInfo.defaultShell)

\* C28, amended: for every shell of the platform (zsh, bash and fish on
\* darwin and linux, powershell and cmd on win32) an export goes to the
\* default path of the shell; shell detection reports a shell of the platform
\* and the default path of that shell.
C28_PathOfPlatformShell ==
    /\ \A i \in 1..Len(calls) :
          calls[i].shellName \in ShellsOf(platform) =>
              calls[i].path = DefaultPath(calls[i].shellName)
    /\ shellInfo.asked =>
          /\ shellInfo.defaultShell \in ShellsOf(platform)
          /\ shellInfo.configPath = DefaultPath(shellInfo.defaultShell)

\* C28 witness: fish was detected and an export to fish has written its
\* config file
C28_Witness ==
    /\ shellInfo.asked
    /\ shellInfo.defaultShell = "fish"
    /\ \E i \in 1..Len(calls) :
          /\ Succeeded(i)
          /\ calls[i].shellName = "fish"
          /\ calls[i].path = "~/.config/fish/config.fish"

====
